---- MODULE Spec2Model ----
(***************************************************************************)
(* Model of the Spider security scanner (src/unnamed/part_000): the check  *)
(* catalog CHECKS, findHeader, gradeFromScore, and the Scanner component's *)
(* state (data, sortKey, sortDir, filterGrade) with its memoised values    *)
(* results and filtered.                                                   *)
(*                                                                         *)
(* JavaScript strings are TLA+ strings; a character is a string of length  *)
(* one, taken with SubSeq.  A value that may be undefined is a record:     *)
(* Undefined, or Str(s) for the string s.                                  *)
(***************************************************************************)
EXTENDS Integers, Sequences, FiniteSets, TLC

VARIABLES
    data,         \* useState data: Null, or the array of crawled pages
    sortKey,      \* useState sortKey
    sortDir,      \* useState sortDir
    filterGrade,  \* useState filterGrade
    results,      \* useMemo results, recomputed when data changes
    filtered,     \* useMemo filtered, recomputed when results or the view state change
    collator,     \* the collation of the host's default locale: the rank it gives each string
    call,         \* a pending call of one of the pure functions: its name and arguments
    ret           \* the value that call returned, NoRet before it ran

vars == <<data, sortKey, sortDir, filterGrade, results, filtered, collator, call, ret>>

-----------------------------------------------------------------------------
(* JavaScript values *)

Undefined == [defined |-> FALSE]
Str(s) == [defined |-> TRUE, str |-> s]

\* !x for x a string or undefined: undefined and "" are falsy
Falsy(x) == (~x.defined) \/ x.str = ""

\* a || b
OrElse(a, b) == IF Falsy(a) THEN b ELSE a

Min(a, b) == IF a < b THEN a ELSE b

-----------------------------------------------------------------------------
(* String.prototype operations, on ASCII strings *)

UpperChars == "ABCDEFGHIJKLMNOPQRSTUVWXYZ"
LowerChars == "abcdefghijklmnopqrstuvwxyz"
DigitChars == "0123456789"

CharAt(s, i) == SubSeq(s, i, i)

\* the lowercase form of each of the first n uppercase letters
RECURSIVE LowerTable(_)
LowerTable(n) ==
    IF n = 1 THEN CharAt(UpperChars, 1) :> CharAt(LowerChars, 1)
    ELSE LowerTable(n - 1) @@ (CharAt(UpperChars, n) :> CharAt(LowerChars, n))

LowerOf == LowerTable(Len(UpperChars))

LowerChar(c) == IF c \in DOMAIN LowerOf THEN LowerOf[c] ELSE c

RECURSIVE toLowerCase(_)
toLowerCase(s) ==
    IF s = "" THEN ""
    ELSE LowerChar(CharAt(s, 1)) \o toLowerCase(SubSeq(s, 2, Len(s)))

\* s.includes(t)
includes(s, t) ==
    \E i \in 1..(Len(s) - Len(t) + 1) : SubSeq(s, i, i + Len(t) - 1) = t

\* s.slice(0, n)
slice0(s, n) == SubSeq(s, 1, Min(n, Len(s)))

IsDigit(c) == \E i \in 1..Len(DigitChars) : CharAt(DigitChars, i) = c

DigitVal(c) == (CHOOSE i \in 1..Len(DigitChars) : CharAt(DigitChars, i) = c) - 1

\* the longest run of digits of s that starts at position i (\d+ is greedy)
RECURSIVE DigitRun(_, _)
DigitRun(s, i) ==
    IF i <= Len(s) /\ IsDigit(CharAt(s, i))
    THEN CharAt(s, i) \o DigitRun(s, i + 1)
    ELSE ""

\* parseInt of a string of decimal digits ("" never reaches it)
RECURSIVE parseInt(_)
parseInt(d) ==
    IF d = "" THEN 0
    ELSE parseInt(SubSeq(d, 1, Len(d) - 1)) * 10 + DigitVal(CharAt(d, Len(d)))

\* `${n}` for a number n >= 0
RECURSIVE NumToString(_)
NumToString(n) ==
    IF n < 10 THEN CharAt(DigitChars, n + 1)
    ELSE NumToString(n \div 10) \o CharAt(DigitChars, (n % 10) + 1)

\* val.match(/max-age=(\d+)/)?.[1] : the digits captured by the leftmost match,
\* Undefined when the pattern matches nowhere
MaxAgeKey == "max-age="

MatchMaxAge(val) ==
    LET hits == {i \in 1..(Len(val) - Len(MaxAgeKey) + 1) :
                    /\ SubSeq(val, i, i + Len(MaxAgeKey) - 1) = MaxAgeKey
                    /\ DigitRun(val, i + Len(MaxAgeKey)) # ""}
    IN  IF hits = {} THEN Undefined
        ELSE LET first == CHOOSE i \in hits : \A j \in hits : i <= j
             IN  Str(DigitRun(val, first + Len(MaxAgeKey)))

-----------------------------------------------------------------------------
(* findHeader.  A header map is the sequence of its entries [k, v] in the  *)
(* order Object.entries yields them; its keys are pairwise distinct.       *)

\* findHeader keeping the last key that matches
RECURSIVE findHeaderLast(_, _)
findHeaderLast(headers, name) ==
    IF headers = <<>> THEN Undefined
    ELSE LET e == headers[Len(headers)]
         IN  IF toLowerCase(e.k) = toLowerCase(name) THEN Str(e.v)
             ELSE findHeaderLast(SubSeq(headers, 1, Len(headers) - 1), name)

RECURSIVE findHeaderFrom(_, _, _)
findHeaderFrom(headers, lower, i) ==
    IF i > Len(headers) THEN Undefined
    ELSE IF toLowerCase(headers[i].k) = lower THEN Str(headers[i].v)
    ELSE findHeaderFrom(headers, lower, i + 1)

findHeader(headers, name) ==
    LET lower == toLowerCase(name)
    IN  findHeaderFrom(headers, lower, 1)

-----------------------------------------------------------------------------
(* The check catalog CHECKS: name, header and severity of each entry, and  *)
(* its check function.  An outcome is [pass, value, detail]; value and     *)
(* detail are Undefined when the code leaves them out.  The dash of the    *)
(* detail texts is written as a hyphen.                                    *)

CHECKS == <<
    [name |-> "HTTPS",                        header |-> "url",                          severity |-> "critical"],
    [name |-> "Strict-Transport-Security",    header |-> "strict-transport-security",    severity |-> "critical"],
    [name |-> "Content-Security-Policy",      header |-> "content-security-policy",      severity |-> "critical"],
    [name |-> "X-Frame-Options",              header |-> "x-frame-options",              severity |-> "high"],
    [name |-> "X-Content-Type-Options",       header |-> "x-content-type-options",       severity |-> "medium"],
    [name |-> "Referrer-Policy",              header |-> "referrer-policy",              severity |-> "medium"],
    [name |-> "Permissions-Policy",           header |-> "permissions-policy",           severity |-> "medium"],
    [name |-> "X-XSS-Protection",             header |-> "x-xss-protection",             severity |-> "low"],
    [name |-> "Cross-Origin-Opener-Policy",   header |-> "cross-origin-opener-policy",   severity |-> "low"],
    [name |-> "Cross-Origin-Resource-Policy", header |-> "cross-origin-resource-policy", severity |-> "low"] >>

Outcome(p, v, d) == [pass |-> p, value |-> v, detail |-> d]

\* val.slice(0, 80) + (val.length > 80 ? "..." : "")
Truncate80(val) == slice0(val, 80) \o (IF Len(val) > 80 THEN "..." ELSE "")

\* an HTTPS check that passes only when the server sent some header
CheckHTTPSWhenHeaders(h) == Outcome(h # <<>>, Undefined, Str("Checked via crawl URL"))

CheckHTTPS(h) == Outcome(TRUE, Undefined, Str("Checked via crawl URL"))

OneYear == 31536000

CheckHSTS(h) ==
    LET val == findHeader(h, "strict-transport-security")
    IN  IF Falsy(val)
        THEN Outcome(FALSE, Undefined, Str("Header missing - browsers can connect over HTTP"))
        ELSE LET maxAge == parseInt(OrElse(MatchMaxAge(val.str), Str("0")).str)
             IN  IF maxAge < OneYear
                 THEN Outcome(TRUE, val,
                              Str("max-age=" \o NumToString(maxAge) \o " (recommend >= 31536000)"))
                 ELSE Outcome(TRUE, val, Undefined)

CheckCSP(h) ==
    LET val == findHeader(h, "content-security-policy")
    IN  IF Falsy(val)
        THEN Outcome(FALSE, Undefined, Str("No CSP header - site is vulnerable to XSS injection"))
        ELSE LET hasUnsafe == includes(val.str, "unsafe-inline") \/ includes(val.str, "unsafe-eval")
             IN  Outcome(TRUE, Str(Truncate80(val.str)),
                         IF hasUnsafe THEN Str("Contains unsafe-inline or unsafe-eval directives")
                                      ELSE Undefined)

CheckXFO(h) ==
    LET val == findHeader(h, "x-frame-options")
    IN  IF Falsy(val)
        THEN Outcome(FALSE, Undefined, Str("Missing - page can be embedded in iframes (clickjacking risk)"))
        ELSE Outcome(TRUE, val, Undefined)

\* CheckXCTO comparing the value as it is written
CheckXCTOCaseSensitive(h) ==
    LET val == findHeader(h, "x-content-type-options")
    IN  IF Falsy(val)
        THEN Outcome(FALSE, Undefined, Str("Missing - browser may MIME-sniff responses"))
        ELSE Outcome(val.str = "nosniff", val, Undefined)

CheckXCTO(h) ==
    LET val == findHeader(h, "x-content-type-options")
    IN  IF Falsy(val)
        THEN Outcome(FALSE, Undefined, Str("Missing - browser may MIME-sniff responses"))
        ELSE Outcome(toLowerCase(val.str) = "nosniff", val, Undefined)

CheckReferrer(h) ==
    LET val == findHeader(h, "referrer-policy")
    IN  IF Falsy(val)
        THEN Outcome(FALSE, Undefined, Str("Missing - full URL may leak in Referer header"))
        ELSE Outcome(TRUE, val, Undefined)

CheckPermissions(h) ==
    LET val == OrElse(findHeader(h, "permissions-policy"), findHeader(h, "feature-policy"))
    IN  IF Falsy(val)
        THEN Outcome(FALSE, Undefined, Str("Missing - all browser features are allowed by default"))
        ELSE Outcome(TRUE, Str(Truncate80(val.str)), Undefined)

CheckXXSS(h) ==
    LET val == findHeader(h, "x-xss-protection")
    IN  IF Falsy(val)
        THEN Outcome(FALSE, Undefined, Str("Missing (note: modern browsers use CSP instead)"))
        ELSE Outcome(TRUE, val, Undefined)

CheckCOOP(h) ==
    LET val == findHeader(h, "cross-origin-opener-policy")
    IN  IF Falsy(val)
        THEN Outcome(FALSE, Undefined, Str("Missing - window can be referenced by cross-origin pages"))
        ELSE Outcome(TRUE, val, Undefined)

CheckCORP(h) ==
    LET val == findHeader(h, "cross-origin-resource-policy")
    IN  IF Falsy(val)
        THEN Outcome(FALSE, Undefined, Str("Missing"))
        ELSE Outcome(TRUE, val, Undefined)

\* CHECKS[i].check(h, html); no check reads html
RunCheck(i, h) ==
    CASE i = 1  -> CheckHTTPS(h)
      [] i = 2  -> CheckHSTS(h)
      [] i = 3  -> CheckCSP(h)
      [] i = 4  -> CheckXFO(h)
      [] i = 5  -> CheckXCTO(h)
      [] i = 6  -> CheckReferrer(h)
      [] i = 7  -> CheckPermissions(h)
      [] i = 8  -> CheckXXSS(h)
      [] i = 9  -> CheckCOOP(h)
      [] i = 10 -> CheckCORP(h)

-----------------------------------------------------------------------------
(* gradeFromScore and the weighted score of Scanner.results *)

\* gradeFromScore with the boundaries left out of their grades
gradeFromScoreExclusive(score) ==
    IF score > 90 THEN "A"
    ELSE IF score > 70 THEN "B"
    ELSE IF score > 50 THEN "C"
    ELSE "F"

gradeFromScore(score) ==
    IF score >= 90 THEN "A"
    ELSE IF score >= 70 THEN "B"
    ELSE IF score >= 50 THEN "C"
    ELSE "F"

\* weights with high and medium exchanged
weightsExchanged == [critical |-> 30, high |-> 15, medium |-> 20, low |-> 10]

\* const weights = { critical: 30, high: 20, medium: 15, low: 10 }
weights == [critical |-> 30, high |-> 20, medium |-> 15, low |-> 10]

\* the ties x = m / 2 (m odd, earnedWeight / totalWeight = m / 200) at which the
\* double (earnedWeight / totalWeight) * 100 falls just below m / 2
TiesBelow == {29, 57, 113, 115}

\* RoundPercent with Math.floor in the place of Math.round
FloorPercent(earnedWeight, totalWeight) == (100 * earnedWeight) \div totalWeight

\* Math.round((earnedWeight / totalWeight) * 100) for 0 <= earnedWeight <= totalWeight,
\* totalWeight > 0, computed in doubles as the code does: the nearest integer, a tie
\* going up, but for the ties of TiesBelow, where the double is already below the tie
RoundPercent(earnedWeight, totalWeight) ==
    IF /\ (200 * earnedWeight) % totalWeight = 0
       /\ ((200 * earnedWeight) \div totalWeight) \in TiesBelow
    THEN (((200 * earnedWeight) \div totalWeight) - 1) \div 2
    ELSE (200 * earnedWeight + totalWeight) \div (2 * totalWeight)

\* the loop over checks: <<totalWeight, earnedWeight>> after the first i checks
RECURSIVE WeightLoop(_, _)
WeightLoop(checks, i) ==
    IF i = 0 THEN <<0, 0>>
    ELSE LET acc == WeightLoop(checks, i - 1)
             w == weights[checks[i].check.severity]
         IN  <<acc[1] + w, IF checks[i].result.pass THEN acc[2] + w ELSE acc[2]>>

ScoreOf(checks) ==
    LET acc == WeightLoop(checks, Len(checks))
        totalWeight == acc[1]
        earnedWeight == acc[2]
    IN  IF totalWeight > 0 THEN RoundPercent(earnedWeight, totalWeight) ELSE 0

-----------------------------------------------------------------------------
(* Scanner.results: the aggregation over data.  A page is [url, headers]:  *)
(* url is Undefined or Str(u); headers is NoHeaders when the page has no   *)
(* headers field, or Headers(h) for the header map h.                      *)

Null == [defined |-> FALSE]
Arr(pages) == [defined |-> TRUE, arr |-> pages]

NoHeaders == [defined |-> FALSE]
Headers(h) == [defined |-> TRUE, map |-> h]

\* page.headers || {}
HeadersOf(page) == IF page.headers.defined THEN page.headers.map ELSE <<>>

\* CHECKS.map((check) => ({ check, result: check.check(headers, html) })), its first i entries
RECURSIVE MapChecks(_, _)
MapChecks(headers, i) ==
    IF i = 0 THEN <<>>
    ELSE Append(MapChecks(headers, i - 1), [check |-> CHECKS[i], result |-> RunCheck(i, headers)])

\* PageResultOf counting as failed the checks that carry a detail
PageResultOfDetailCount(page, headers, checks) ==
    LET passCount == Cardinality({i \in 1..Len(checks) : checks[i].result.pass})
        failCount == Cardinality({i \in 1..Len(checks) : checks[i].result.detail.defined})
    IN  [url |-> page.url.str, headers |-> headers, score |-> ScoreOf(checks),
         checks |-> checks, passCount |-> passCount, failCount |-> failCount]

\* the rest of the loop body, once checks is known
PageResultOf(page, headers, checks) ==
    LET passCount == Cardinality({i \in 1..Len(checks) : checks[i].result.pass})
        failCount == Cardinality({i \in 1..Len(checks) : ~checks[i].result.pass})
    IN  [url |-> page.url.str, headers |-> headers, score |-> ScoreOf(checks),
         checks |-> checks, passCount |-> passCount, failCount |-> failCount]

\* the body of the loop for one page that has a url
PageResult(page) ==
    PageResultOf(page, HeadersOf(page), MapChecks(HeadersOf(page), Len(CHECKS)))

Entry(key, val) == [k |-> key, v |-> val]

\* a value every check accepts, for the header of check i
GoodValue(i) == IF i = 2 THEN "max-age=31536000" ELSE IF i = 5 THEN "nosniff" ELSE "DENY"

\* the header map that holds exactly the headers of the checks in S, in catalog order
RECURSIVE HeadersWith(_, _)
HeadersWith(S, i) ==
    IF i = 0 THEN <<>>
    ELSE IF i \in S THEN Append(HeadersWith(S, i - 1), Entry(CHECKS[i].header, GoodValue(i)))
    ELSE HeadersWith(S, i - 1)

\* the end-to-end example page
ExampleHeaders == <<
    Entry("strict-transport-security", "max-age=31536000"),
    Entry("content-security-policy", "default-src 'self'"),
    Entry("x-frame-options", "DENY"),
    Entry("x-content-type-options", "nosniff"),
    Entry("referrer-policy", "no-referrer") >>

ExamplePage == [url |-> Str("https://a.test/"), headers |-> Headers(ExampleHeaders)]

TitleCaseHeaders == <<
    Entry("Referrer-Policy", "same-origin"),
    Entry("X-Content-Type-Options", "NoSniff"),
    Entry("X-Frame-Options", "SAMEORIGIN"),
    Entry("Content-Security-Policy", "script-src 'unsafe-inline'"),
    Entry("Strict-Transport-Security", "max-age=3600") >>

\* the pages the data arrays are made of
PagePoolSeq == <<
    ExamplePage,
    [url |-> Str("https://b.test/"), headers |-> NoHeaders],
    [url |-> Undefined, headers |-> Headers(ExampleHeaders)],
    [url |-> Str(""), headers |-> NoHeaders],
    [url |-> Str("https://ch.test/"), headers |-> Headers(HeadersWith(2..10, 10))],
    [url |-> Str("https://d.test/"), headers |-> Headers(HeadersWith({2, 3, 4}, 10))],
    [url |-> Str("https://aa.test/"), headers |-> Headers(TitleCaseHeaders)] >>

PagePool == {PagePoolSeq[i] : i \in 1..Len(PagePoolSeq)}

\* PageResult is a pure function of the page: its values on the first n pages of
\* the pool that have a url, computed once
RECURSIVE PageResultTable(_)
PageResultTable(n) ==
    IF n = 0 THEN <<>>
    ELSE IF Falsy(PagePoolSeq[n].url) THEN PageResultTable(n - 1)
    ELSE Append(PageResultTable(n - 1), <<PagePoolSeq[n], PageResult(PagePoolSeq[n])>>)

PageResultMemo == PageResultTable(Len(PagePoolSeq))

PageResultMemoised(page) ==
    IF \E i \in 1..Len(PageResultMemo) : PageResultMemo[i][1] = page
    THEN PageResultMemo[CHOOSE i \in 1..Len(PageResultMemo) : PageResultMemo[i][1] = page][2]
    ELSE PageResult(page)

\* ResultsLoop putting each result in front of the earlier ones
RECURSIVE ResultsLoopPrepend(_, _)
ResultsLoopPrepend(pages, i) ==
    IF i = 0 THEN <<>>
    ELSE IF Falsy(pages[i].url) THEN ResultsLoopPrepend(pages, i - 1)
    ELSE <<PageResultMemoised(pages[i])>> \o ResultsLoopPrepend(pages, i - 1)

\* items after the loop has gone through the first i pages
RECURSIVE ResultsLoop(_, _)
ResultsLoop(pages, i) ==
    IF i = 0 THEN <<>>
    ELSE IF Falsy(pages[i].url) THEN ResultsLoop(pages, i - 1)
    ELSE Append(ResultsLoop(pages, i - 1), PageResultMemoised(pages[i]))

Results(d) ==
    IF (~d.defined) \/ Len(d.arr) = 0 THEN <<>>
    ELSE ResultsLoop(d.arr, Len(d.arr))

-----------------------------------------------------------------------------
(* Scanner.filtered: the grade filter, then a stable sort of a copy *)

\* localeCompare is called without a locales argument: it compares by the collation
\* of the host's default locale, which the language leaves to the implementation
\* beyond its being a consistent comparator. A collation over the strings S is the
\* rank it gives each of them: strings of one rank compare equal, and no rank is
\* left out
Collators(S) ==
    {f \in [S -> 1..Cardinality(S)] : \A x \in S : f[x] = 1 \/ \E y \in S : f[y] = f[x] - 1}

\* a.localeCompare(b) on the host
localeCompare(a, b) ==
    IF a = b THEN 0
    ELSE IF collator[a] < collator[b] THEN -1
    ELSE IF collator[a] > collator[b] THEN 1
    ELSE 0

\* the comparator handed to sort
Compare(a, b, key, dir) ==
    LET cmp == CASE key = "url"   -> localeCompare(a.url, b.url)
                 [] key = "score" -> a.score - b.score
                 [] key = "pass"  -> a.passCount - b.passCount
                 [] key = "fail"  -> a.failCount - b.failCount
    IN  IF dir = "desc" THEN -cmp ELSE cmp

\* x put into the sorted list before the elements that compare equal to it
RECURSIVE InsertBeforeEqual(_, _, _, _)
InsertBeforeEqual(list, x, key, dir) ==
    IF list = <<>> THEN <<x>>
    ELSE IF Compare(list[Len(list)], x, key, dir) < 0 THEN Append(list, x)
    ELSE Append(InsertBeforeEqual(SubSeq(list, 1, Len(list) - 1), x, key, dir), list[Len(list)])

\* x put into the sorted list after every element that does not compare greater
RECURSIVE InsertSorted(_, _, _, _)
InsertSorted(list, x, key, dir) ==
    IF list = <<>> THEN <<x>>
    ELSE IF Compare(list[Len(list)], x, key, dir) <= 0 THEN Append(list, x)
    ELSE Append(InsertSorted(SubSeq(list, 1, Len(list) - 1), x, key, dir), list[Len(list)])

\* Array.prototype.sort: stable
RECURSIVE StableSort(_, _, _, _)
StableSort(list, i, key, dir) ==
    IF i = 0 THEN <<>>
    ELSE InsertSorted(StableSort(list, i - 1, key, dir), list[i], key, dir)

\* Matches keeping every result whose score reaches the lower boundary of the grade
MatchesOrBetter(r, grade) ==
    r.score >= (CASE grade = "A" -> 90 [] grade = "B" -> 70 [] grade = "C" -> 50 [] grade = "F" -> 0)

Matches(r, grade) == gradeFromScore(r.score) = grade

Filtered(res, grade, key, dir) ==
    LET list == IF grade # "all" THEN SelectSeq(res, LAMBDA r : Matches(r, grade)) ELSE res
    IN  StableSort(list, Len(list), key, dir)

\* Scanner.gradeBreakdown: map after the loop has gone through the first i results
RECURSIVE GradeLoop(_, _)
GradeLoop(res, i) ==
    IF i = 0 THEN [A |-> 0, B |-> 0, C |-> 0, F |-> 0]
    ELSE LET map == GradeLoop(res, i - 1)
             g == gradeFromScore(res[i].score)
         IN  [map EXCEPT ![g] = @ + 1]

GradeBreakdown(res) == GradeLoop(res, Len(res))

-----------------------------------------------------------------------------
(* Bounds and the inputs drawn within them *)

MaxPages == 2     \* pages in one data array
MaxHeaders == 2   \* entries in a drawn header map
MaxChecks == 3    \* check outcomes in a drawn scorer input

\* the sequences of at most n elements of S
SeqsUpTo(S, n) == UNION {[1..m -> S] : m \in 0..n}

\* the header maps of at most MaxHeaders entries, keys pairwise distinct
HeaderMapsOver(keys, values) ==
    {h \in SeqsUpTo({Entry(key, val) : key \in keys, val \in values}, MaxHeaders) :
        \A i, j \in 1..Len(h) : i # j => h[i].k # h[j].k}

LongValue ==
    "default-src 'self'; script-src 'self' https://cdn.a.test; img-src 'self' data:; object-src 'none'"

CommonValues == {"", "DENY", "nosniff", "NoSniff", "script-src 'unsafe-inline'",
                 "script-src 'unsafe-eval'", LongValue}

MaxAgeValues == {"max-age=3600", "max-age=31535999", "max-age=31536000", "max-age=63072000",
                 "includeSubDomains", "Max-Age=63072000", "max-age=x; max-age=63072000",
                 "max-age=0063072000; max-age=1"}

ValuesFor(i) == IF i = 2 THEN {"", "DENY"} \cup MaxAgeValues ELSE CommonValues

\* the keys a drawn map for check i is made of: the check's header name in two
\* casings, a header no check reads, and the legacy name for Permissions-Policy
KeysFor(i) ==
    {CHECKS[i].header, CHECKS[i].name, "server"}
        \cup (IF i = 7 THEN {"feature-policy"} ELSE {})

LookupKeys == {"x-frame-options", "X-Frame-Options", "X-FRAME-OPTIONS", "referrer-policy"}
LookupNames == {"X-Frame-Options", "x-frame-options", "Referrer-Policy", "x-frame"}
LookupValues == {"", "DENY", "SAMEORIGIN"}

Severities == {"critical", "high", "medium", "low"}

\* the calls of the pure functions
FindHeaderCalls ==
    {[fn |-> "findHeader", headers |-> h, name |-> n] :
        h \in HeaderMapsOver(LookupKeys, LookupValues), n \in LookupNames}

CheckCalls ==
    UNION {{[fn |-> "check", i |-> i, headers |-> h] : h \in HeaderMapsOver(KeysFor(i), ValuesFor(i))} :
            i \in 1..Len(CHECKS)}

GradeCalls == {[fn |-> "gradeFromScore", score |-> n] : n \in 0..100}

\* the lists of at most MaxChecks outcomes of any severity, and the catalog's ten
\* checks with every combination of outcomes
ScoreCalls ==
    {[fn |-> "score", checks |-> c] :
        c \in SeqsUpTo({[check |-> [severity |-> sv], result |-> [pass |-> b]] :
                            sv \in Severities, b \in BOOLEAN}, MaxChecks)}
    \cup {[fn |-> "score",
           checks |-> [i \in 1..Len(CHECKS) |->
                          [check |-> [severity |-> CHECKS[i].severity], result |-> [pass |-> b[i]]]]] :
            b \in [1..Len(CHECKS) -> BOOLEAN]}

ResultsCalls ==
    {[fn |-> "results", data |-> Arr(<<[url |-> Str("https://a.test/"), headers |-> Headers(HeadersWith(S, 10))]>>)] :
        S \in SUBSET (2..10)}
    \cup {[fn |-> "results", data |-> d] : d \in {Null} \cup {Arr(ps) : ps \in SeqsUpTo(PagePool, MaxPages)}}

\* a result as far as filtered reads it
Scored(u, n, p) == [url |-> u, score |-> n, passCount |-> p, failCount |-> Len(CHECKS) - p]

\* results scoring 95, 40, 60 and 20
ExampleResults == <<Scored("https://p1.test/", 95, 9), Scored("https://p2.test/", 40, 3),
                    Scored("https://p3.test/", 60, 5), Scored("https://p4.test/", 20, 1)>>

\* results whose scores sit on and beside the grade boundaries
BoundaryResults == {Scored("https://q1.test/", 90, 8), Scored("https://q2.test/", 89, 8),
                    Scored("https://q3.test/", 70, 6), Scored("https://q4.test/", 69, 6),
                    Scored("https://q5.test/", 50, 4), Scored("https://q6.test/", 49, 4)}

\* the results of every data array, the example, and short lists of boundary results
FilteredCalls ==
    {[fn |-> "filtered", results |-> res, grade |-> g, key |-> key, dir |-> dir] :
        res \in {Results(Arr(ps)) : ps \in SeqsUpTo(PagePool, MaxPages)}
                    \cup {ExampleResults}
                    \cup SeqsUpTo(BoundaryResults, MaxPages),
        g \in {"all", "A", "B", "C", "F"},
        key \in {"url", "score", "pass", "fail"},
        dir \in {"asc", "desc"}}

\* urls that hosts are known to order differently, and urls they order alike
CompareUrls ==
    {"https://a.test/", "https://aa.test/", "https://b.test/", "https://ch.test/",
     "https://d.test/", "https://i.test/", "https://j.test/", "https://t.test/",
     "https://y.test/", "https://z.test/", "https://a.test/1", ""}

LocaleCompareCalls == {[fn |-> "localeCompare", a |-> a, b |-> b] : a, b \in CompareUrls}

NoCall == [fn |-> "none"]
NoRet == [returned |-> FALSE]
Ret(v) == [returned |-> TRUE, value |-> v]

-----------------------------------------------------------------------------
(* The Scanner component *)

SortKeys == {"url", "score", "pass", "fail"}
FilterGrades == {"all", "A", "B", "C", "F"}

\* the pages a crawl streams: three with a url, of grades B, F and A, and the two
\* without one
StreamPool == {PagePoolSeq[i] : i \in 1..5}

StreamUrls == {page.url.str : page \in {q \in StreamPool : ~Falsy(q.url)}}

Init ==
    /\ collator \in Collators(StreamUrls)
    /\ data = Null
    /\ sortKey = "score"
    /\ sortDir = "asc"
    /\ filterGrade = "all"
    /\ results = <<>>
    /\ filtered = <<>>
    /\ call = NoCall
    /\ ret = NoRet

\* SearchBar calls setDataValues; results and filtered are recomputed on the render
SetData(d) ==
    /\ data' = d
    /\ results' = Results(d)
    /\ filtered' = Filtered(results', filterGrade, sortKey, sortDir)
    /\ UNCHANGED <<sortKey, sortDir, filterGrade, collator, call, ret>>

toggleSort(key) ==
    /\ IF sortKey = key
       THEN /\ sortDir' = (IF sortDir = "asc" THEN "desc" ELSE "asc")
            /\ sortKey' = sortKey
       ELSE /\ sortKey' = key
            /\ sortDir' = (IF key = "score" THEN "asc" ELSE "desc")
    /\ filtered' = Filtered(results, filterGrade, sortKey', sortDir')
    /\ UNCHANGED <<data, results, filterGrade, collator, call, ret>>

\* onClick of a grade button
setFilterGrade(g) ==
    /\ filterGrade' = g
    /\ filtered' = Filtered(results, g, sortKey, sortDir)
    /\ UNCHANGED <<data, results, sortKey, sortDir, collator, call, ret>>

\* what SearchBar may hand over next: the crawl streams its pages, so the array so
\* far with one more page, or the empty array or null of a new crawl; every array
\* of at most MaxPages pages is reached this way
NextData(d) ==
    {Null, Arr(<<>>)}
        \cup (IF d.defined /\ Len(d.arr) < MaxPages
              THEN {Arr(Append(d.arr, page)) : page \in StreamPool}
              ELSE {})

\* the grade buttons and the table head are rendered only when there are results
Next ==
    \/ \E d \in NextData(data) : SetData(d)
    \/ Len(results) > 0 /\ \E key \in SortKeys : toggleSort(key)
    \/ Len(results) > 0 /\ \E g \in FilterGrades : setFilterGrade(g)

Spec == Init /\ [][Next]_vars

-----------------------------------------------------------------------------
(* The pure functions, each applied to the inputs drawn for it *)

AppIdle ==
    /\ data = Null
    /\ sortKey = "score"
    /\ sortDir = "asc"
    /\ filterGrade = "all"
    /\ results = <<>>
    /\ filtered = <<>>

Calls ==
    FindHeaderCalls \cup CheckCalls \cup GradeCalls \cup ScoreCalls \cup ResultsCalls
        \cup FilteredCalls \cup LocaleCompareCalls

\* the strings a call hands to localeCompare
ComparedStrings(c) ==
    IF c.fn = "localeCompare" THEN {c.a, c.b}
    ELSE IF c.fn = "filtered" /\ c.key = "url" THEN {c.results[i].url : i \in 1..Len(c.results)}
    ELSE {}

PureInit ==
    /\ AppIdle
    /\ call \in Calls
    /\ collator \in Collators(ComparedStrings(call))
    /\ ret = NoRet

Returns(v) ==
    /\ ~ret.returned
    /\ ret' = Ret(v)
    /\ UNCHANGED <<data, sortKey, sortDir, filterGrade, results, filtered, collator, call>>

CallFindHeader == call.fn = "findHeader" /\ Returns(findHeader(call.headers, call.name))

CallCheck == call.fn = "check" /\ Returns(RunCheck(call.i, call.headers))

CallGradeFromScore == call.fn = "gradeFromScore" /\ Returns(gradeFromScore(call.score))

CallScore == call.fn = "score" /\ Returns(ScoreOf(call.checks))

CallResults == call.fn = "results" /\ Returns(Results(call.data))

CallLocaleCompare == call.fn = "localeCompare" /\ Returns(localeCompare(call.a, call.b))

CallFiltered ==
    call.fn = "filtered" /\ Returns(Filtered(call.results, call.grade, call.key, call.dir))

PureNext ==
    \/ CallFindHeader
    \/ CallCheck
    \/ CallGradeFromScore
    \/ CallScore
    \/ CallResults
    \/ CallFiltered
    \/ CallLocaleCompare

SpecPure == PureInit /\ [][PureNext]_vars

-----------------------------------------------------------------------------
(* What the claims speak of, stated apart from the operators above *)

\* the indices of the keys of h that equal name when both are lowercased
KeyMatches(h, name) == {i \in 1..Len(h) : toLowerCase(h[i].k) = toLowerCase(name)}

Present(h, name) == KeyMatches(h, name) # {}

\* the value of the first such key in iteration order
FirstValue(h, name) ==
    h[CHOOSE i \in KeyMatches(h, name) : \A j \in KeyMatches(h, name) : i <= j].v

ClaimWeight(severity) ==
    CASE severity = "critical" -> 30
      [] severity = "high"     -> 20
      [] severity = "medium"   -> 15
      [] severity = "low"      -> 10

\* the sum of the weights of the checks whose index is in I
RECURSIVE WeightSum(_, _)
WeightSum(checks, I) ==
    IF I = {} THEN 0
    ELSE LET i == CHOOSE j \in I : TRUE
         IN  ClaimWeight(checks[i].check.severity) + WeightSum(checks, I \ {i})

TotalWeight(checks) == WeightSum(checks, 1..Len(checks))
EarnedWeight(checks) == WeightSum(checks, {i \in 1..Len(checks) : checks[i].result.pass})

\* s is x = n / d rounded to the nearest integer, a tie going up
IsRounded(s, n, d) == 2 * s * d - d <= 2 * n /\ 2 * n < 2 * s * d + d

\* checks with its entries at i and i + 1 exchanged
SwapAt(checks, i) ==
    [j \in 1..Len(checks) |-> IF j = i THEN checks[i + 1] ELSE IF j = i + 1 THEN checks[i] ELSE checks[j]]

Returned(fn) == call.fn = fn /\ ret.returned

-----------------------------------------------------------------------------
(* C1: every PageResult the aggregation produces has passCount + failCount *)
(* equal to 10, the size of the catalog, and a score from 0 to 100.        *)
C1_CountsAndScoreRange ==
    Returned("results") =>
        \A k \in 1..Len(ret.value) :
            /\ ret.value[k].passCount + ret.value[k].failCount = 10
            /\ Len(CHECKS) = 10
            /\ ret.value[k].score >= 0
            /\ ret.value[k].score <= 100

\* a page with some checks passed beside HTTPS and some failed has been aggregated
C1_Witness ==
    /\ Returned("results")
    /\ \E k \in 1..Len(ret.value) : ret.value[k].passCount > 1 /\ ret.value[k].failCount > 0

(* C2: the score is round(100 * earnedWeight / totalWeight) with the       *)
(* weights critical=30, high=20, medium=15, low=10, and 0 when totalWeight *)
(* is 0; it is 100 when every check passes, 0 when every check fails, and  *)
(* the same whatever the order of the checks.                              *)
C2_ScoreFormula ==
    Returned("score") =>
        LET checks == call.checks
            total == TotalWeight(checks)
            earned == EarnedWeight(checks)
        IN  /\ total > 0 => IsRounded(ret.value, 100 * earned, total)
            /\ total = 0 => ret.value = 0
            /\ (checks # <<>> /\ \A i \in 1..Len(checks) : checks[i].result.pass) => ret.value = 100
            /\ (\A i \in 1..Len(checks) : ~checks[i].result.pass) => ret.value = 0
            /\ \A i \in 1..(Len(checks) - 1) : ScoreOf(SwapAt(checks, i)) = ret.value

\* a list of checks of different weights, some passed and some failed, whose
\* quotient is not a whole number, has been scored
C2_Witness ==
    /\ Returned("score")
    /\ \E i, j \in 1..Len(call.checks) :
          /\ call.checks[i].result.pass
          /\ ~call.checks[j].result.pass
          /\ call.checks[i].check.severity # call.checks[j].check.severity
    /\ (100 * EarnedWeight(call.checks)) % TotalWeight(call.checks) # 0

\* what the example page's result shows: the names of the checks passed and failed,
\* the weights the scoring loop ends with, the score and the grade
ExampleOutcome(r) ==
    [passed |-> {r.checks[i].check.name : i \in {j \in 1..Len(r.checks) : r.checks[j].result.pass}},
     failed |-> {r.checks[i].check.name : i \in {j \in 1..Len(r.checks) : ~r.checks[j].result.pass}},
     earned |-> WeightLoop(r.checks, Len(r.checks))[2],
     total  |-> WeightLoop(r.checks, Len(r.checks))[1],
     score  |-> r.score,
     grade  |-> gradeFromScore(r.score)]

ExamplePassed == {"HTTPS", "Strict-Transport-Security", "Content-Security-Policy",
                  "X-Frame-Options", "X-Content-Type-Options", "Referrer-Policy"}
ExampleFailed == {"Permissions-Policy", "X-XSS-Protection",
                  "Cross-Origin-Opener-Policy", "Cross-Origin-Resource-Policy"}

ExampleAggregated ==
    /\ Returned("results")
    /\ call.data = Arr(<<[url |-> Str("https://a.test/"),
                         headers |-> Headers(<<Entry("strict-transport-security", "max-age=31536000"),
                                               Entry("content-security-policy", "default-src 'self'"),
                                               Entry("x-frame-options", "DENY"),
                                               Entry("x-content-type-options", "nosniff"),
                                               Entry("referrer-policy", "no-referrer")>>)]>>)

(* C3 as claimed: for the page https://a.test/ with the headers            *)
(* strict-transport-security: max-age=31536000, content-security-policy:   *)
(* default-src 'self', x-frame-options: DENY, x-content-type-options:      *)
(* nosniff, referrer-policy: no-referrer, the checks HTTPS, HSTS, CSP,     *)
(* X-Frame-Options, X-Content-Type-Options and Referrer-Policy pass, the   *)
(* other four fail, 165 of 215 is earned, the score is 77, the grade B.    *)
C3_AsClaimed ==
    ExampleAggregated =>
        /\ Len(ret.value) = 1
        /\ ExampleOutcome(ret.value[1]) =
              [passed |-> ExamplePassed, failed |-> ExampleFailed,
               earned |-> 165, total |-> 215, score |-> 77, grade |-> "B"]

(* C3, amended: for that page the same six checks pass and the other four  *)
(* fail, the earned weight is 140 (30+30+30+20+15+15) out of a total       *)
(* weight of 185 (3*30 + 20 + 3*15 + 3*10), the score is 76, the grade B.  *)
C3_EndToEnd ==
    ExampleAggregated =>
        /\ Len(ret.value) = 1
        /\ ret.value[1].url = "https://a.test/"
        /\ ExampleOutcome(ret.value[1]) =
              [passed |-> ExamplePassed, failed |-> ExampleFailed,
               earned |-> 140, total |-> 185, score |-> 76, grade |-> "B"]

\* the example page has been aggregated
C3_Witness == ExampleAggregated /\ Len(ret.value) = 1

(* C4: the grade is A for a score of 90 or more, B from 70 to 89, C from   *)
(* 50 to 69 and F below 50; 90 gives A, 89 B, 70 B, 69 C, 50 C, 49 F.      *)
C4_GradeBoundaries ==
    Returned("gradeFromScore") =>
        LET score == call.score
            grade == ret.value
        IN  /\ grade \in {"A", "B", "C", "F"}
            /\ grade = "A" <=> score >= 90
            /\ grade = "B" <=> (70 <= score /\ score < 90)
            /\ grade = "C" <=> (50 <= score /\ score < 70)
            /\ grade = "F" <=> score < 50
            /\ score = 90 => grade = "A"
            /\ score = 89 => grade = "B"
            /\ score = 70 => grade = "B"
            /\ score = 69 => grade = "C"
            /\ score = 50 => grade = "C"
            /\ score = 49 => grade = "F"

\* a score that sits on a boundary has been graded
C4_Witness == Returned("gradeFromScore") /\ call.score \in {90, 70, 50}

(* C5: findHeader returns the value of the first key, in iteration order,  *)
(* whose lowercased form equals the lowercased name, and undefined when no *)
(* key matches; it leaves the map as it was.  X-Frame-Options looked up in *)
(* {x-frame-options: DENY} gives DENY.                                     *)
C5_FindHeader ==
    Returned("findHeader") =>
        /\ ret.value = (IF Present(call.headers, call.name)
                        THEN Str(FirstValue(call.headers, call.name))
                        ELSE Undefined)
        /\ (call.name = "X-Frame-Options" /\ call.headers = <<Entry("x-frame-options", "DENY")>>)
              => ret.value = Str("DENY")

\* a map with two keys that match the name, holding different values, has been
\* looked up under a name in another casing
C5_Witness ==
    /\ Returned("findHeader")
    /\ Cardinality(KeyMatches(call.headers, call.name)) = 2
    /\ call.headers[1].v # call.headers[2].v
    /\ \A i \in 1..Len(call.headers) : call.headers[i].k # call.name

-----------------------------------------------------------------------------
\* the checks that only look for their header
PresenceChecks == {3, 4, 6, 8, 9, 10}

(* C6: for Content-Security-Policy, X-Frame-Options, Referrer-Policy,      *)
(* X-XSS-Protection, Cross-Origin-Opener-Policy and                        *)
(* Cross-Origin-Resource-Policy the outcome has pass=false exactly when no *)
(* key of the map equals the header name case-insensitively, and pass=true *)
(* whenever such a key is present, whatever its value.                     *)
C6_PassIffPresent ==
    (Returned("check") /\ call.i \in PresenceChecks) =>
        (ret.value.pass <=> Present(call.headers, CHECKS[call.i].header))

(* C7: Strict-Transport-Security absent gives pass=false; present gives    *)
(* pass=true always, with a detail exactly when the number of the first    *)
(* max-age=<digits> is below 31536000, a missing max-age counting as 0.    *)
C7_HstsPresenceOnly ==
    (Returned("check") /\ call.i = 2) =>
        IF Present(call.headers, "strict-transport-security")
        THEN LET val == FirstValue(call.headers, "strict-transport-security")
                 digits == MatchMaxAge(val)
                 maxAge == IF digits.defined THEN parseInt(digits.str) ELSE 0
             IN  /\ ret.value.pass
                 /\ ret.value.detail.defined <=> maxAge < 31536000
                 /\ val = "max-age=3600" => ret.value.detail.defined
                 /\ val = "max-age=63072000" => ~ret.value.detail.defined
        ELSE ~ret.value.pass

(* C8: X-Content-Type-Options absent gives pass=false; present, pass is    *)
(* true if and only if the value lowercased is exactly nosniff.            *)
C8_NosniffOnly ==
    (Returned("check") /\ call.i = 5) =>
        IF Present(call.headers, "x-content-type-options")
        THEN ret.value.pass <=>
                toLowerCase(FirstValue(call.headers, "x-content-type-options")) = "nosniff"
        ELSE ~ret.value.pass

\* the header was present as NoSniff and the check passed
C8_Witness ==
    /\ Returned("check")
    /\ call.i = 5
    /\ Present(call.headers, "x-content-type-options")
    /\ FirstValue(call.headers, "x-content-type-options") = "NoSniff"
    /\ ret.value.pass

\* the value a check reports for a header value it truncates
Reported(val) == IF Len(val) > 80 THEN SubSeq(val, 1, 80) \o "..." ELSE val

(* C9: Permissions-Policy: when permissions-policy is present the outcome  *)
(* is pass=true and the value reported is derived from that header; when   *)
(* it is absent and feature-policy is present, pass=true with the          *)
(* feature-policy value; pass=false only when both are absent.             *)
C9_PermissionsFirst ==
    (Returned("check") /\ call.i = 7) =>
        IF Present(call.headers, "permissions-policy")
        THEN /\ ret.value.pass
             /\ ret.value.value = Str(Reported(FirstValue(call.headers, "permissions-policy")))
        ELSE IF Present(call.headers, "feature-policy")
        THEN /\ ret.value.pass
             /\ ret.value.value = Str(Reported(FirstValue(call.headers, "feature-policy")))
        ELSE ~ret.value.pass

\* a page lacks a url when it has none or an empty one
LacksUrl(page) == (~page.url.defined) \/ page.url.str = ""

Pages == IF data.defined THEN data.arr ELSE <<>>

(* C10: the aggregation skips every entry that lacks a url (none, or an    *)
(* empty one) and produces exactly one PageResult for each remaining       *)
(* entry, in the order of the input; a missing headers field is taken as   *)
(* the empty header map.                                                   *)
C10_SkipsAndKeepsOrder ==
    LET kept == SelectSeq(Pages, LAMBDA page : ~LacksUrl(page))
    IN  /\ Len(results) = Len(kept)
        /\ \A k \in 1..Len(kept) :
              /\ results[k].url = kept[k].url.str
              /\ results[k].headers = (IF kept[k].headers.defined THEN kept[k].headers.map ELSE <<>>)
              /\ Len(results[k].checks) = Len(CHECKS)

\* an entry without a url came before two entries with one, the last of them
\* without a headers field
C10_Witness ==
    /\ Len(Pages) >= 2
    /\ \E i, j \in 1..Len(Pages) :
          /\ i < j
          /\ LacksUrl(Pages[i])
          /\ ~LacksUrl(Pages[j])
          /\ ~Pages[j].headers.defined
    /\ Len(results) = Len(Pages) - 1

-----------------------------------------------------------------------------
\* how many entries of the list are x
Count(list, x) == Cardinality({i \in 1..Len(list) : list[i] = x})

Range(list) == {list[i] : i \in 1..Len(list)}

(* C11: the grade filter keeps every result when the filter is all, and    *)
(* otherwise exactly the results whose grade, derived from the score, is   *)
(* the selected one, none dropped and none added; filtering the scores     *)
(* 95, 40, 60, 20 by F keeps the results scoring 40 and 20; the number     *)
(* kept for a grade is the grade histogram's count for it.                 *)
C11_FilterByGrade ==
    Returned("filtered") =>
        LET res == call.results
            g == call.grade
            out == ret.value
        IN  /\ \A x \in Range(res) \cup Range(out) :
                  Count(out, x) = (IF g = "all" \/ gradeFromScore(x.score) = g
                                   THEN Count(res, x) ELSE 0)
            /\ g = "all" => Len(out) = Len(res)
            /\ g # "all" => Len(out) = GradeBreakdown(res)[g]
            /\ ([i \in 1..Len(res) |-> res[i].score] = <<95, 40, 60, 20>> /\ g = "F")
                  => /\ {out[i].score : i \in 1..Len(out)} = {40, 20}
                     /\ Len(out) = 2

\* the results scoring 95, 40, 60, 20 have been filtered by F
C11_Witness ==
    /\ Returned("filtered")
    /\ call.results = ExampleResults
    /\ call.grade = "F"
    /\ Len(ret.value) = 2

-----------------------------------------------------------------------------
\* the one-to-one maps of 1..n onto itself
Perms(n) == {p \in [1..n -> 1..n] : \A i, j \in 1..n : p[i] = p[j] => i = j}

\* how a stands to b in the sort key: below 0, 0, or above 0; urls stand as the
\* host's collation has them
KeyOrder(a, b, key) ==
    CASE key = "url"   -> localeCompare(a.url, b.url)
      [] key = "score" -> a.score - b.score
      [] key = "pass"  -> a.passCount - b.passCount
      [] key = "fail"  -> a.failCount - b.failCount

\* the results the grade filter keeps, in the order of results
GradeFiltered == SelectSeq(results, LAMBDA r : filterGrade = "all" \/ gradeFromScore(r.score) = filterGrade)

\* the displayed list is GradeFiltered rearranged by a one-to-one map, ordered in
\* the sort key along the direction, equal results in the order of GradeFiltered
C12_Displayed ==
    /\ Len(filtered) = Len(GradeFiltered)
    /\ \E p \in Perms(Len(filtered)) :
          /\ \A i \in 1..Len(filtered) : filtered[i] = GradeFiltered[p[i]]
          /\ \A i, j \in 1..Len(filtered) :
                i < j =>
                    LET o == KeyOrder(filtered[i], filtered[j], sortKey)
                    IN  /\ sortDir = "asc" => o <= 0
                        /\ sortDir = "desc" => o >= 0
                        /\ o = 0 => p[i] < p[j]
    /\ LET kept == SelectSeq(Pages, LAMBDA page : ~LacksUrl(page))
       IN  /\ Len(results) = Len(kept)
           /\ \A k \in 1..Len(kept) : results[k].url = kept[k].url.str

\* a step that leaves data alone leaves results alone; toggling the current sort
\* key changes the direction and nothing else but the order of the displayed list
C12_Toggling ==
    /\ data' = data => results' = results
    /\ toggleSort(sortKey) =>
          /\ sortKey' = sortKey
          /\ sortDir' # sortDir
          /\ filterGrade' = filterGrade
          /\ data' = data
          /\ \A x \in Range(filtered) \cup Range(filtered') : Count(filtered', x) = Count(filtered, x)
          /\ (sortKey = "score" /\ sortDir = "asc") =>
                \A i, j \in 1..Len(filtered') : i < j => filtered'[i].score >= filtered'[j].score

(* C12: after any sequence of toggleSort, grade-filter and data updates    *)
(* the displayed list is a permutation of the grade-filtered results,      *)
(* non-decreasing in the sort key when the direction is asc and            *)
(* non-increasing when it is desc, results that compare equal in their     *)
(* input order, and results itself is not reordered; toggling the same     *)
(* sort key again flips only the direction, so the list sorted by score    *)
(* ascending becomes the same results in descending score order.           *)
C12_SortedView == []C12_Displayed /\ [][C12_Toggling]_vars

\* two results with different urls that the host's collation ranks equal are
\* displayed by url, the direction toggled back to asc
C12_Witness ==
    /\ sortKey = "url"
    /\ sortDir = "asc"
    /\ Len(results) = 2
    /\ Len(filtered) = 2
    /\ filtered[1].url # filtered[2].url
    /\ localeCompare(filtered[1].url, filtered[2].url) = 0


-----------------------------------------------------------------------------
(* C13: the HTTPS check passes for every header map, so every PageResult   *)
(* of the aggregation has passCount >= 1 and failCount <= 9 and a score    *)
(* that is never 0; the lowest score, that of a page with no headers at    *)
(* all, is round(100 * 30 / totalWeight), which is above 0.                *)
C13_HttpsAlwaysPasses ==
    /\ (Returned("check") /\ call.i = 1) => ret.value.pass
    /\ Returned("results") =>
          \A k \in 1..Len(ret.value) :
              LET r == ret.value[k]
                  total == TotalWeight(r.checks)
              IN  /\ r.checks[1].check.name = "HTTPS"
                  /\ r.checks[1].result.pass
                  /\ r.passCount >= 1
                  /\ r.failCount <= 9
                  /\ r.score # 0
                  /\ \E lowest \in 1..100 :
                        /\ IsRounded(lowest, 100 * 30, total)
                        /\ r.score >= lowest
                        /\ r.headers = <<>> => r.score = lowest

\* a page with no headers at all has been aggregated: HTTPS is its only pass
C13_Witness ==
    /\ Returned("results")
    /\ \E k \in 1..Len(ret.value) :
          /\ ret.value[k].headers = <<>>
          /\ ret.value[k].passCount = 1
          /\ ret.value[k].failCount = 9
          /\ ret.value[k].score = 16

====
